---- MODULE Spec2Model ----
(***************************************************************************)
(* Chunked (multipart) video upload of memorly-server.                     *)
(*                                                                         *)
(* The model follows utils/chunk-upload.service.ts, the controller         *)
(* controllers/chunk-upload.controller.ts, the ChunkUpload schema and the  *)
(* cleanup service.  Every await of a handler is one step, so that HTTP    *)
(* requests and the periodic cleanup interleave as they do on the Node     *)
(* event loop.                                                             *)
(*                                                                         *)
(* The session store is MongoDB through Mongoose.  document.save() sends   *)
(* only the paths modified since the document was loaded:                  *)
(*   parts.push(x)       -> $push parts x      (appended to the stored     *)
(*                                              array, version increment)  *)
(*   parts.sort(..)      -> $set parts <array> (whole array, guarded by    *)
(*                                              the version read)          *)
(*   field = value       -> $set field value, only when value differs from *)
(*                          the value loaded                               *)
(* and fails when no stored document matches.                              *)
(*                                                                         *)
(* The object store is an S3 compatible multipart API.  A request to it    *)
(* may fail at any time; what it answers to an abort or a completion of an *)
(* upload id that is no longer open is left open (both answers occur).     *)
(***************************************************************************)
EXTENDS Integers, Sequences, FiniteSets, TLC

\* ------------------------------------------------------------------ bounds
MaxSessions == 1      \* multipart uploads the object store opens
MaxChunks   == 2      \* largest totalChunks a client declares
MaxCalls    == 3      \* upload / complete / abort / status requests in a run
MaxFaults   == 1      \* requests the object store or the database fails in a run
MaxNow      == 25     \* last clock value, in hours
TickHours   == 25     \* granularity of the clock, in hours
MaxStored   == 2      \* counts of stored parts and of File records saturate here
SweepSessions == 2    \* multipart uploads open in a run that follows the cleanup

\* -------------------------------------------------------- program constants
CHUNK_SIZE     == 5       \* MiB
MAX_VIDEO_SIZE == 10240   \* MiB (10 GiB)
EXPIRY_HOURS   == 24      \* setHours(getHours() + 24), on the server's clock

Users       == {"alice", "bob"}                 \* req.user.userId
Owners      == {"alice"}                        \* the users who open a session
MimeTypes   == {"video/mp4", "image/png"}
allowedVideoTypes ==
    {"video/mp4", "video/mpeg", "video/quicktime", "video/x-msvideo", "video/webm"}
TotalSizes  == {3, 12, MAX_VIDEO_SIZE + 1}      \* MiB
ChunkCounts == 0 .. MaxChunks
UploadIds   == 1 .. MaxSessions
SessionIds  == 1 .. SweepSessions               \* the ids the object store hands out
PartNumbers == 1 .. (MaxChunks + 1)
PartInputs  == 0 .. (MaxChunks + 1)             \* parseInt(req.body.partNumber)
Buffers     == {<<1>>, <<2, 2>>}                \* req.file.buffer
Calls       == 1 .. MaxCalls

NoDoc == [status |-> "none"]

VARIABLES
    db,       \* ChunkUpload collection: uploadId -> document or NoDoc
    s3,       \* object store: uploadId -> multipart upload
    files,    \* File collection: uploadId (storage key) -> number of records
    now,      \* clock, hours
    ini,      \* the initiate request in progress
    calls,    \* the other requests in progress, one slot each
    resp,     \* the response this step sends, if it sends one
    reaper,   \* the cleanup sweep
    faults    \* requests failed by the object store or the database so far

vars == <<db, s3, files, now, ini, calls, resp, reaper, faults>>

\* ------------------------------------------------------------------ helpers
RECURSIVE Checksum(_)
\* The ETag the object store computes for a part body.
Checksum(buf) ==
    IF buf = <<>> THEN 7
    ELSE (31 * Checksum(Tail(buf)) + Head(buf)) % 97

\* Array.prototype.find on parts: the first entry with this partNumber.
RECURSIVE FindPart(_, _)
FindPart(parts, p) ==
    IF parts = <<>> THEN [partNumber |-> 0, eTag |-> 0, size |-> 0]
    ELSE IF Head(parts).partNumber = p THEN Head(parts)
    ELSE FindPart(Tail(parts), p)

\* The lookup looks at the first recorded part only.
HasPartAtHead(parts, p) ==
    IF parts = <<>> THEN FALSE ELSE Head(parts).partNumber = p

\* parts.find(..) is not undefined.
HasPart(parts, p) == \E i \in 1 .. Len(parts) : parts[i].partNumber = p

PartNums(parts) == {parts[i].partNumber : i \in 1 .. Len(parts)}

\* Insertion of one entry into a list sorted by partNumber (stable).
RECURSIVE InsertSorted(_, _)
InsertSorted(x, s) ==
    IF s = <<>> THEN <<x>>
    ELSE IF x.partNumber < Head(s).partNumber THEN <<x>> \o s
    ELSE <<Head(s)>> \o InsertSorted(x, Tail(s))

\* parts.sort((a, b) => a.partNumber - b.partNumber)
RECURSIVE SortParts(_)
SortParts(parts) ==
    IF parts = <<>> THEN <<>>
    ELSE InsertSorted(parts[Len(parts)], SortParts(SubSeq(parts, 1, Len(parts) - 1)))

\* ChunkUpload.findOne({ uploadId, userId }) returns the document.
Found(doc, user) == IF doc = NoDoc THEN FALSE ELSE doc.userId = user

IdleCall ==
    [op |-> "none", pc |-> "idle", sid |-> 0, user |-> "", p |-> 0, buf |-> <<>>,
     st |-> "", cnt |-> 0, v |-> 0, parts |-> <<>>, eTag |-> 0]

\* A slot whose request has been answered.
DoneCall == [IdleCall EXCEPT !.pc = "done"]

\* The answer to a request: the operation, uploadId and partNumber asked for,
\* the outcome, and the eTag that a successful upload returns.
Response(call, out) ==
    [op |-> call.op, sid |-> call.sid, p |-> call.p, out |-> out,
     eTag |-> IF out \in {"ok", "recorded"} THEN call.eTag ELSE 0]

\* What the client receives for an outcome: the HTTP status and the message.
\* The services catch every error of their try block, the "not found" they
\* throw themselves included, and throw one fixed message in its place; the
\* controllers send the message of whatever reaches them with status 500.
HttpResponse(op, out) ==
    CASE out \in {"ok", "recorded"} ->
            [code |-> IF op = "initiate" THEN 201 ELSE 200, message |-> "success"]
      [] out = "bad_request" ->
            [code |-> 400, message |-> "missing or invalid field"]
      [] out = "invalid_type" ->
            [code |-> 500, message |-> "Invalid file type"]
      [] out = "size_exceeded" ->
            [code |-> 500, message |-> "File size exceeds maximum limit of 10GB"]
      [] out = "too_small" ->
            [code |-> 500, message |-> "Files smaller than 5MB should use regular upload"]
      [] out = "status_not_found" \/ (op = "status" /\ out = "not_found") ->
            [code |-> 500, message |-> "Upload session not found"]
      [] out = "file_db" ->
            [code |-> 500, message |-> "database error"]
      [] OTHER ->
            [code |-> 500,
             message |-> CASE op = "initiate" -> "Failed to initiate chunked upload"
                           [] op = "upload"   -> "Failed to upload chunk"
                           [] op = "complete" -> "Failed to complete chunked upload"
                           [] op = "abort"    -> "Failed to abort chunked upload"
                           [] OTHER           -> "Failed to get upload status"]

NoResponse == [op |-> "none", sid |-> 0, p |-> 0, out |-> "none", eTag |-> 0]

IdleIni == [pc |-> "idle", user |-> "", size |-> 0, chunks |-> 0, uploadId |-> 0]

EmptyUpload ==
    [state |-> "none",
     etag |-> [p \in PartNumbers |-> 0],
     uploads |-> [p \in PartNumbers |-> 0]]

Init ==
    /\ db = [u \in SessionIds |-> NoDoc]
    /\ s3 = [u \in SessionIds |-> EmptyUpload]
    /\ files = [u \in SessionIds |-> 0]
    /\ now = 0
    /\ ini = IdleIni
    /\ calls = [c \in Calls |-> IdleCall]
    /\ resp = NoResponse
    /\ reaper = [pc |-> "idle", queue |-> <<>>, cleanedCount |-> 0]
    /\ faults = 0

\* The upload id the object store hands out next.
NextUploadId == Cardinality({u \in SessionIds : s3[u].state # "none"}) + 1

\* The object store or the database fails the request at hand (a timeout, an
\* outage).
Fault ==
    /\ faults < MaxFaults
    /\ faults' = faults + 1

\* A slot serves one request, and requests take the slots in order.
Free(c) ==
    /\ calls[c].pc = "idle"
    /\ \A d \in Calls : d < c => calls[d].pc # "idle"

\* The handler goes on to its next await.
Proceed(c, call) ==
    /\ calls' = [calls EXCEPT ![c] = call]
    /\ resp' = NoResponse

\* The handler answers the request and its slot is done.
Answer(c, call, out) ==
    /\ calls' = [calls EXCEPT ![c] = DoneCall]
    /\ resp' = Response(call, out)

\* ------------------------------------------------------------------ initiate
\* The initiate request is answered.
InitiateAnswer(out, uploadId) ==
    /\ ini' = IdleIni
    /\ resp' = [NoResponse EXCEPT !.op = "initiate", !.sid = uploadId, !.out = out]

\* The size is validated after the multipart upload has been created.
InitiateValidateLate(user, mime, size, chunks) ==
    /\ ini.pc = "idle"
    /\ \/ /\ chunks <= 0
          /\ InitiateAnswer("bad_request", 0)
          /\ UNCHANGED s3
       \/ /\ chunks > 0
          /\ mime \notin allowedVideoTypes
          /\ InitiateAnswer("invalid_type", 0)
          /\ UNCHANGED s3
       \/ /\ chunks > 0
          /\ mime \in allowedVideoTypes
          /\ size > MAX_VIDEO_SIZE
          /\ InitiateAnswer("size_exceeded", 0)
          /\ s3' = [s3 EXCEPT ![NextUploadId].state = "open"]
       \/ /\ chunks > 0
          /\ mime \in allowedVideoTypes
          /\ size <= MAX_VIDEO_SIZE
          /\ size < CHUNK_SIZE /\ chunks > 1
          /\ InitiateAnswer("too_small", 0)
          /\ s3' = [s3 EXCEPT ![NextUploadId].state = "open"]
       \/ /\ chunks > 0
          /\ mime \in allowedVideoTypes
          /\ size <= MAX_VIDEO_SIZE
          /\ ~(size < CHUNK_SIZE /\ chunks > 1)
          /\ ini' = [pc |-> "create", user |-> user, size |-> size,
                     chunks |-> chunks, uploadId |-> 0]
          /\ resp' = NoResponse
          /\ UNCHANGED s3
    /\ UNCHANGED <<db, files, now, calls, reaper, faults>>

\* initiateUpload (controller) and the validation of initiateChunkedUpload.
InitiateValidate(user, mime, size, chunks) ==
    /\ ini.pc = "idle"
    /\ \/ /\ chunks <= 0
          /\ InitiateAnswer("bad_request", 0)
       \/ /\ chunks > 0
          /\ mime \notin allowedVideoTypes
          /\ InitiateAnswer("invalid_type", 0)
       \/ /\ chunks > 0
          /\ mime \in allowedVideoTypes
          /\ size > MAX_VIDEO_SIZE
          /\ InitiateAnswer("size_exceeded", 0)
       \/ /\ chunks > 0
          /\ mime \in allowedVideoTypes
          /\ size <= MAX_VIDEO_SIZE
          /\ size < CHUNK_SIZE /\ chunks > 1
          /\ InitiateAnswer("too_small", 0)
       \/ /\ chunks > 0
          /\ mime \in allowedVideoTypes
          /\ size <= MAX_VIDEO_SIZE
          /\ ~(size < CHUNK_SIZE /\ chunks > 1)
          /\ ini' = [pc |-> "create", user |-> user, size |-> size,
                     chunks |-> chunks, uploadId |-> 0]
          /\ resp' = NoResponse
    /\ UNCHANGED <<db, s3, files, now, calls, reaper, faults>>

\* s3Client.send(CreateMultipartUploadCommand)
InitiateCreate ==
    /\ ini.pc = "create"
    /\ \/ /\ s3' = [s3 EXCEPT ![NextUploadId].state = "open"]
          /\ ini' = [ini EXCEPT !.pc = "save", !.uploadId = NextUploadId]
          /\ resp' = NoResponse
          /\ UNCHANGED faults
       \/ /\ Fault
          /\ InitiateAnswer("store", 0)
          /\ UNCHANGED s3
    /\ UNCHANGED <<db, files, now, calls, reaper>>

\* What a successful initiateChunkedUpload returns.
InitiateResult(uploadId) == [uploadId |-> uploadId, chunkSize |-> CHUNK_SIZE]

\* The session is created with the time of its creation as its expiry.
InitiateSaveNoExpiry ==
    /\ ini.pc = "save"
    /\ \/ /\ db' = [db EXCEPT ![ini.uploadId] =
                      [status |-> "initiated", userId |-> ini.user,
                       totalSize |-> ini.size, totalChunks |-> ini.chunks,
                       uploadedChunks |-> 0, parts |-> <<>>,
                       expiresAt |-> now, v |-> 0]]
          /\ InitiateAnswer("ok", ini.uploadId)
          /\ UNCHANGED faults
       \/ /\ Fault
          /\ InitiateAnswer("db", 0)
          /\ UNCHANGED db
    /\ UNCHANGED <<s3, files, now, calls, reaper>>

\* ChunkUpload.create({...})
InitiateSave ==
    /\ ini.pc = "save"
    /\ \/ /\ db' = [db EXCEPT ![ini.uploadId] =
                      [status |-> "initiated", userId |-> ini.user,
                       totalSize |-> ini.size, totalChunks |-> ini.chunks,
                       uploadedChunks |-> 0, parts |-> <<>>,
                       expiresAt |-> now + EXPIRY_HOURS, v |-> 0]]
          /\ InitiateAnswer("ok", ini.uploadId)
          /\ UNCHANGED faults
       \/ /\ Fault
          /\ InitiateAnswer("db", 0)
          /\ UNCHANGED db
    /\ UNCHANGED <<s3, files, now, calls, reaper>>

\* ------------------------------------------------------------------ uploadChunk
\* uploadChunkHandler (controller) up to the first await of uploadChunk:
\* ChunkUpload.findOne({ uploadId }) and the checks on the document read.
UploadChunkFind(c, sid, user, p, buf) ==
    /\ Free(c)
    /\ LET req == [IdleCall EXCEPT !.op = "upload", !.sid = sid, !.p = p, !.buf = buf]
           doc == db[sid]
       IN  \/ /\ p < 1
              /\ Answer(c, req, "bad_request")
           \/ /\ p >= 1
              /\ doc = NoDoc
              /\ Answer(c, req, "not_found")
           \/ /\ p >= 1
              /\ doc # NoDoc
              /\ doc.status = "completed"
              /\ Answer(c, [req EXCEPT !.st = doc.status], "completed")
           \/ /\ p >= 1
              /\ doc # NoDoc
              /\ doc.status \in {"aborted", "failed"}
              /\ Answer(c, [req EXCEPT !.st = doc.status], "terminal")
           \/ /\ p >= 1
              /\ doc # NoDoc
              /\ doc.status \notin {"completed", "aborted", "failed"}
              /\ HasPart(doc.parts, p)
              /\ Answer(c, [req EXCEPT !.st = doc.status,
                                       !.eTag = FindPart(doc.parts, p).eTag], "recorded")
           \/ /\ p >= 1
              /\ doc # NoDoc
              /\ doc.status \notin {"completed", "aborted", "failed"}
              /\ ~HasPart(doc.parts, p)
              /\ Proceed(c, [req EXCEPT !.pc = "send", !.st = doc.status,
                                        !.cnt = doc.uploadedChunks])
    /\ UNCHANGED <<db, s3, files, now, ini, reaper, faults>>

\* The request goes on to its save although the object store returned no ETag.
UploadChunkSendNoETagCheck(c) ==
    LET call == calls[c]
        up   == s3[call.sid]
    IN  /\ call.op = "upload" /\ call.pc = "send"
        /\ \/ /\ up.state = "open"
              /\ s3' = [s3 EXCEPT ![call.sid].etag[call.p] = Checksum(call.buf),
                                  ![call.sid].uploads[call.p] =
                                      IF @ < MaxStored THEN @ + 1 ELSE @]
              /\ Proceed(c, [call EXCEPT !.pc = "save", !.eTag = Checksum(call.buf)])
              /\ UNCHANGED faults
           \/ /\ up.state = "open"
              /\ Fault
              /\ Proceed(c, [call EXCEPT !.pc = "save"])
              /\ UNCHANGED s3
           \/ /\ up.state = "open"
              /\ Fault
              /\ Answer(c, call, "store")
              /\ UNCHANGED s3
           \/ /\ up.state # "open"
              /\ Answer(c, call, "no_such_upload")
              /\ UNCHANGED <<s3, faults>>
        /\ UNCHANGED <<db, files, now, ini, reaper>>

\* s3Client.send(UploadPartCommand) and the check of its ETag.
UploadChunkSend(c) ==
    LET call == calls[c]
        up   == s3[call.sid]
    IN  /\ call.op = "upload" /\ call.pc = "send"
        /\ \/ /\ up.state = "open"
              /\ s3' = [s3 EXCEPT ![call.sid].etag[call.p] = Checksum(call.buf),
                                  ![call.sid].uploads[call.p] =
                                      IF @ < MaxStored THEN @ + 1 ELSE @]
              /\ Proceed(c, [call EXCEPT !.pc = "save", !.eTag = Checksum(call.buf)])
              /\ UNCHANGED faults
           \/ /\ up.state = "open"
              /\ Fault
              /\ Answer(c, call, "no_etag")
              /\ UNCHANGED s3
           \/ /\ up.state = "open"
              /\ Fault
              /\ Answer(c, call, "store")
              /\ UNCHANGED s3
           \/ /\ up.state # "open"
              /\ Answer(c, call, "no_such_upload")
              /\ UNCHANGED <<s3, faults>>
        /\ UNCHANGED <<db, files, now, ini, reaper>>

\* The save that records the part and leaves the status as it was read.
UploadChunkSaveKeepsStatus(c) ==
    LET call == calls[c]
        doc  == db[call.sid]
    IN  /\ call.op = "upload" /\ call.pc = "save"
        /\ \/ /\ doc # NoDoc
              /\ db' = [db EXCEPT ![call.sid] =
                    [doc EXCEPT
                       !.parts = Append(@, [partNumber |-> call.p, eTag |-> call.eTag,
                                            size |-> Len(call.buf)]),
                       !.uploadedChunks = call.cnt + 1,
                       !.v = @ + 1]]
              /\ Answer(c, call, "ok")
              /\ UNCHANGED faults
           \/ /\ doc # NoDoc
              /\ Fault
              /\ Answer(c, call, "db")
              /\ UNCHANGED db
           \/ /\ doc = NoDoc
              /\ Answer(c, call, "no_document")
              /\ UNCHANGED <<db, faults>>
        /\ UNCHANGED <<s3, files, now, ini, reaper>>

\* parts.push(..); uploadedChunks += 1; status = "uploading"; save()
UploadChunkSave(c) ==
    LET call == calls[c]
        doc  == db[call.sid]
    IN  /\ call.op = "upload" /\ call.pc = "save"
        /\ \/ /\ doc # NoDoc
              /\ db' = [db EXCEPT ![call.sid] =
                    [doc EXCEPT
                       !.parts = Append(@, [partNumber |-> call.p, eTag |-> call.eTag,
                                            size |-> Len(call.buf)]),
                       !.uploadedChunks = call.cnt + 1,
                       !.status = IF call.st # "uploading" THEN "uploading" ELSE @,
                       !.v = @ + 1]]
              /\ Answer(c, call, "ok")
              /\ UNCHANGED faults
           \/ /\ doc # NoDoc
              /\ Fault
              /\ Answer(c, call, "db")
              /\ UNCHANGED db
           \/ /\ doc = NoDoc
              /\ Answer(c, call, "no_document")
              /\ UNCHANGED <<db, faults>>
        /\ UNCHANGED <<s3, files, now, ini, reaper>>

\* ------------------------------------------------------- object store answers
\* The part numbers of the list are 1, 2, .. without a gap.
Gapless(parts) == \A i \in 1 .. Len(parts) : parts[i].partNumber = i

\* CompleteMultipartUpload refuses a part list that is empty, that does not
\* ascend strictly in PartNumber, or that names an ETag other than the one the
\* store holds for the part.
MergeAccepts(up, parts) ==
    /\ Len(parts) > 0
    /\ \A i \in 1 .. Len(parts) : up.etag[parts[i].partNumber] = parts[i].eTag
    /\ \A i \in 1 .. (Len(parts) - 1) : parts[i].partNumber < parts[i + 1].partNumber

\* ------------------------------------------------------------------ complete
\* completeUpload (controller) up to the first await of completeChunkedUpload:
\* ChunkUpload.findOne({ uploadId, userId }), the checks, and parts.sort.
CompleteFind(c, sid, user) ==
    /\ Free(c)
    /\ LET req == [IdleCall EXCEPT !.op = "complete", !.sid = sid, !.user = user]
           doc == db[sid]
       IN  \/ /\ ~Found(doc, user)
              /\ Answer(c, req, "not_found")
           \/ /\ Found(doc, user)
              /\ doc.status = "completed"
              /\ Answer(c, [req EXCEPT !.st = doc.status], "completed")
           \/ /\ Found(doc, user)
              /\ doc.status # "completed"
              /\ doc.uploadedChunks # doc.totalChunks
              /\ Answer(c, [req EXCEPT !.st = doc.status], "incomplete")
           \/ /\ Found(doc, user)
              /\ doc.status # "completed"
              /\ doc.uploadedChunks = doc.totalChunks
              /\ Proceed(c, [req EXCEPT !.pc = "send", !.st = doc.status,
                                        !.parts = SortParts(doc.parts), !.v = doc.v])
    /\ UNCHANGED <<db, s3, files, now, ini, reaper, faults>>

\* A merge that fails marks the session failed.
CompleteSendMarksFailed(c) ==
    LET call == calls[c]
        up   == s3[call.sid]
    IN  /\ call.op = "complete" /\ call.pc = "send"
        /\ \/ /\ up.state \in {"open", "merged"}
              /\ MergeAccepts(up, call.parts)
              /\ s3' = [s3 EXCEPT ![call.sid].state = "merged"]
              /\ Proceed(c, [call EXCEPT !.pc = "save"])
              /\ UNCHANGED <<db, faults>>
           \/ /\ (up.state # "open" \/ ~MergeAccepts(up, call.parts)
                                    \/ ~Gapless(call.parts))
              /\ Answer(c, call, "merge_refused")
              /\ UNCHANGED <<db, s3, faults>>
           \/ /\ up.state = "open"
              /\ Fault
              /\ Answer(c, call, "store")
              /\ db' = [db EXCEPT ![call.sid].status =
                                      IF db[call.sid] = NoDoc THEN @ ELSE "failed"]
              /\ UNCHANGED s3
        /\ UNCHANGED <<files, now, ini, reaper>>

\* s3Client.send(CompleteMultipartUploadCommand).  A store may take a list
\* with a gap or refuse it, and may repeat or refuse a completion done before.
CompleteSend(c) ==
    LET call == calls[c]
        up   == s3[call.sid]
    IN  /\ call.op = "complete" /\ call.pc = "send"
        /\ \/ /\ up.state \in {"open", "merged"}
              /\ MergeAccepts(up, call.parts)
              /\ s3' = [s3 EXCEPT ![call.sid].state = "merged"]
              /\ Proceed(c, [call EXCEPT !.pc = "save"])
              /\ UNCHANGED faults
           \/ /\ (up.state # "open" \/ ~MergeAccepts(up, call.parts)
                                    \/ ~Gapless(call.parts))
              /\ Answer(c, call, "merge_refused")
              /\ UNCHANGED <<s3, faults>>
           \/ /\ up.state = "open"
              /\ Fault
              /\ Answer(c, call, "store")
              /\ UNCHANGED s3
        /\ UNCHANGED <<db, files, now, ini, reaper>>

\* status = "completed"; save()   (parts was sorted in place, so it is written
\* back whole, and only over the version that was read)
CompleteSave(c) ==
    LET call == calls[c]
        doc  == db[call.sid]
    IN  /\ call.op = "complete" /\ call.pc = "save"
        /\ \/ /\ doc # NoDoc
              /\ doc.v = call.v
              /\ db' = [db EXCEPT ![call.sid] =
                    [doc EXCEPT !.status = "completed", !.parts = call.parts,
                                !.v = @ + 1]]
              /\ Proceed(c, [call EXCEPT !.pc = "record", !.parts = <<>>, !.v = 0])
              /\ UNCHANGED faults
           \/ /\ doc # NoDoc
              /\ doc.v = call.v
              /\ Fault
              /\ Answer(c, call, "db")
              /\ UNCHANGED db
           \/ /\ doc # NoDoc
              /\ doc.v # call.v
              /\ Answer(c, call, "version")
              /\ UNCHANGED <<db, faults>>
           \/ /\ doc = NoDoc
              /\ Answer(c, call, "no_document")
              /\ UNCHANGED <<db, faults>>
        /\ UNCHANGED <<s3, files, now, ini, reaper>>

\* getUploadStatus(uploadId, userId), then File.create({...})
CompleteRecord(c) ==
    LET call == calls[c]
        doc  == db[call.sid]
    IN  /\ call.op = "complete" /\ call.pc = "record"
        /\ \/ /\ ~Found(doc, call.user)
              /\ Answer(c, call, "status_not_found")
              /\ UNCHANGED <<files, faults>>
           \/ /\ Found(doc, call.user)
              /\ files' = [files EXCEPT ![call.sid] = IF @ < MaxStored THEN @ + 1 ELSE @]
              /\ Answer(c, call, "ok")
              /\ UNCHANGED faults
           \/ /\ Found(doc, call.user)
              /\ Fault
              /\ Answer(c, call, "file_db")
              /\ UNCHANGED files
        /\ UNCHANGED <<db, s3, now, ini, reaper>>

\* ------------------------------------------------------------------ abort
\* abortUpload (controller) up to ChunkUpload.findOne({ uploadId, userId }).
AbortFind(c, sid, user) ==
    /\ Free(c)
    /\ LET req == [IdleCall EXCEPT !.op = "abort", !.sid = sid]
           doc == db[sid]
       IN  \/ /\ ~Found(doc, user)
              /\ Answer(c, req, "not_found")
           \/ /\ Found(doc, user)
              /\ Proceed(c, [req EXCEPT !.pc = "send", !.st = doc.status])
    /\ UNCHANGED <<db, s3, files, now, ini, reaper, faults>>

\* The request goes on to its save although the object store failed the abort.
AbortSendIgnoresFailure(c) ==
    LET call == calls[c]
        up   == s3[call.sid]
    IN  /\ call.op = "abort" /\ call.pc = "send"
        /\ \/ /\ up.state = "open"
              /\ s3' = [s3 EXCEPT ![call.sid].state = "aborted"]
              /\ Proceed(c, [call EXCEPT !.pc = "save"])
              /\ UNCHANGED faults
           \/ /\ up.state # "open"
              /\ Proceed(c, [call EXCEPT !.pc = "save"])
              /\ UNCHANGED <<s3, faults>>
           \/ /\ up.state # "open"
              /\ Answer(c, call, "no_such_upload")
              /\ UNCHANGED <<s3, faults>>
           \/ /\ up.state = "open"
              /\ Fault
              /\ Proceed(c, [call EXCEPT !.pc = "save"])
              /\ UNCHANGED s3
        /\ UNCHANGED <<db, files, now, ini, reaper>>

\* s3Client.send(AbortMultipartUploadCommand).  A store may take or refuse the
\* abort of an upload that is no longer open.
AbortSend(c) ==
    LET call == calls[c]
        up   == s3[call.sid]
    IN  /\ call.op = "abort" /\ call.pc = "send"
        /\ \/ /\ up.state = "open"
              /\ s3' = [s3 EXCEPT ![call.sid].state = "aborted"]
              /\ Proceed(c, [call EXCEPT !.pc = "save"])
              /\ UNCHANGED faults
           \/ /\ up.state # "open"
              /\ Proceed(c, [call EXCEPT !.pc = "save"])
              /\ UNCHANGED <<s3, faults>>
           \/ /\ up.state # "open"
              /\ Answer(c, call, "no_such_upload")
              /\ UNCHANGED <<s3, faults>>
           \/ /\ up.state = "open"
              /\ Fault
              /\ Answer(c, call, "store")
              /\ UNCHANGED s3
        /\ UNCHANGED <<db, files, now, ini, reaper>>

\* The save that leaves the status as it was read.
AbortSaveUnmarked(c) ==
    LET call == calls[c]
        doc  == db[call.sid]
    IN  /\ call.op = "abort" /\ call.pc = "save"
        /\ \/ /\ doc # NoDoc
              /\ Answer(c, call, "ok")
              /\ UNCHANGED <<db, faults>>
           \/ /\ doc = NoDoc
              /\ Answer(c, call, "no_document")
              /\ UNCHANGED <<db, faults>>
        /\ UNCHANGED <<s3, files, now, ini, reaper>>

\* status = "aborted"; save()
AbortSave(c) ==
    LET call == calls[c]
        doc  == db[call.sid]
    IN  /\ call.op = "abort" /\ call.pc = "save"
        /\ \/ /\ doc # NoDoc
              /\ db' = [db EXCEPT ![call.sid].status =
                                      IF call.st # "aborted" THEN "aborted" ELSE @]
              /\ Answer(c, call, "ok")
              /\ UNCHANGED faults
           \/ /\ doc # NoDoc
              /\ Fault
              /\ Answer(c, call, "db")
              /\ UNCHANGED db
           \/ /\ doc = NoDoc
              /\ Answer(c, call, "no_document")
              /\ UNCHANGED <<db, faults>>
        /\ UNCHANGED <<s3, files, now, ini, reaper>>

\* ------------------------------------------------------------------ status
\* getUploadStatusHandler and getUploadStatus: one read.
GetStatus(c, sid, user) ==
    /\ Free(c)
    /\ LET req == [IdleCall EXCEPT !.op = "status", !.sid = sid]
           doc == db[sid]
       IN  \/ /\ ~Found(doc, user)
              /\ Answer(c, req, "not_found")
           \/ /\ Found(doc, user)
              /\ Answer(c, [req EXCEPT !.st = doc.status], "ok")
    /\ UNCHANGED <<db, s3, files, now, ini, reaper, faults>>

\* ------------------------------------------------------------------ cleanup
\* The documents ChunkUpload.find({expiresAt < now, status in [initiated,
\* uploading]}) returns, in id order.
RECURSIVE ExpiredFrom(_)
ExpiredFrom(u) ==
    IF u > SweepSessions THEN <<>>
    ELSE IF /\ db[u] # NoDoc
            /\ db[u].expiresAt < now
            /\ db[u].status \in {"initiated", "uploading"}
         THEN <<u>> \o ExpiredFrom(u + 1)
         ELSE ExpiredFrom(u + 1)

\* runCleanup -> cleanupExpiredUploads: the find that selects the sweep.
CleanupFind ==
    /\ reaper.pc = "idle"
    /\ \/ /\ reaper' = [pc |-> IF ExpiredFrom(1) = <<>> THEN "idle" ELSE "abort",
                        queue |-> ExpiredFrom(1), cleanedCount |-> 0]
          /\ UNCHANGED faults
       \/ /\ Fault
          /\ reaper' = [pc |-> "idle", queue |-> <<>>, cleanedCount |-> 0]
    /\ resp' = NoResponse
    /\ UNCHANGED <<db, s3, files, now, ini, calls>>

\* The rest of the sweep once one upload has been dealt with.
CleanupNext(count) ==
    [pc |-> IF Len(reaper.queue) > 1 THEN "abort" ELSE "idle",
     queue |-> Tail(reaper.queue), cleanedCount |-> count]

\* A failure of the object store ends the sweep.
CleanupAbortGivesUp ==
    LET u == Head(reaper.queue)
    IN  /\ reaper.pc = "abort"
        /\ \/ /\ s3[u].state = "open"
              /\ s3' = [s3 EXCEPT ![u].state = "aborted"]
              /\ reaper' = [reaper EXCEPT !.pc = "delete"]
              /\ UNCHANGED faults
           \/ /\ s3[u].state # "open"
              /\ reaper' = [reaper EXCEPT !.pc = "delete"]
              /\ UNCHANGED <<s3, faults>>
           \/ /\ s3[u].state # "open"
              /\ reaper' = [reaper EXCEPT !.pc = "idle", !.queue = <<>>]
              /\ UNCHANGED <<s3, faults>>
           \/ /\ s3[u].state = "open"
              /\ Fault
              /\ reaper' = [reaper EXCEPT !.pc = "idle", !.queue = <<>>]
              /\ UNCHANGED s3
        /\ resp' = NoResponse
        /\ UNCHANGED <<db, files, now, ini, calls>>

\* The sweep deletes the document although the object store failed the abort.
CleanupAbortDeletesAnyway ==
    LET u == Head(reaper.queue)
    IN  /\ reaper.pc = "abort"
        /\ \/ /\ s3[u].state = "open"
              /\ s3' = [s3 EXCEPT ![u].state = "aborted"]
              /\ reaper' = [reaper EXCEPT !.pc = "delete"]
              /\ UNCHANGED faults
           \/ /\ s3[u].state # "open"
              /\ reaper' = [reaper EXCEPT !.pc = "delete"]
              /\ UNCHANGED <<s3, faults>>
           \/ /\ s3[u].state # "open"
              /\ reaper' = CleanupNext(reaper.cleanedCount)
              /\ UNCHANGED <<s3, faults>>
           \/ /\ s3[u].state = "open"
              /\ Fault
              /\ reaper' = [reaper EXCEPT !.pc = "delete"]
              /\ UNCHANGED s3
        /\ resp' = NoResponse
        /\ UNCHANGED <<db, files, now, ini, calls>>

\* s3Client.send(AbortMultipartUploadCommand) for the upload at hand.
CleanupAbort ==
    LET u == Head(reaper.queue)
    IN  /\ reaper.pc = "abort"
        /\ \/ /\ s3[u].state = "open"
              /\ s3' = [s3 EXCEPT ![u].state = "aborted"]
              /\ reaper' = [reaper EXCEPT !.pc = "delete"]
              /\ UNCHANGED faults
           \/ /\ s3[u].state # "open"
              /\ reaper' = [reaper EXCEPT !.pc = "delete"]
              /\ UNCHANGED <<s3, faults>>
           \/ /\ s3[u].state # "open"
              /\ reaper' = CleanupNext(reaper.cleanedCount)
              /\ UNCHANGED <<s3, faults>>
           \/ /\ s3[u].state = "open"
              /\ Fault
              /\ reaper' = CleanupNext(reaper.cleanedCount)
              /\ UNCHANGED s3
        /\ resp' = NoResponse
        /\ UNCHANGED <<db, files, now, ini, calls>>

\* The sweep counts the upload as cleaned and leaves its document.
CleanupDeleteCountsOnly ==
    /\ reaper.pc = "delete"
    /\ reaper' = CleanupNext(reaper.cleanedCount + 1)
    /\ resp' = NoResponse
    /\ UNCHANGED <<db, s3, files, now, ini, calls, faults>>

\* ChunkUpload.deleteOne({ _id }); cleanedCount++
CleanupDelete ==
    LET u == Head(reaper.queue)
    IN  /\ reaper.pc = "delete"
        /\ \/ /\ db' = [db EXCEPT ![u] = NoDoc]
              /\ reaper' = CleanupNext(reaper.cleanedCount + 1)
              /\ UNCHANGED faults
           \/ /\ Fault
              /\ reaper' = CleanupNext(reaper.cleanedCount)
              /\ UNCHANGED db
        /\ resp' = NoResponse
        /\ UNCHANGED <<s3, files, now, ini, calls>>

\* Time passes.  Only the time left to a document matters, so the clock is
\* followed from the first document on.
Tick ==
    /\ now + TickHours <= MaxNow
    /\ \E u \in SessionIds : db[u] # NoDoc
    /\ now' = now + TickHours
    /\ resp' = NoResponse
    /\ UNCHANGED <<db, s3, files, ini, calls, reaper, faults>>

Next ==
    \/ \E user \in Owners, mime \in MimeTypes, size \in TotalSizes, chunks \in ChunkCounts :
          /\ NextUploadId <= MaxSessions
          /\ InitiateValidate(user, mime, size, chunks)
    \/ InitiateCreate
    \/ InitiateSave
    \/ \E c \in Calls, sid \in UploadIds, user \in Users, p \in PartInputs, buf \in Buffers :
          UploadChunkFind(c, sid, user, p, buf)
    \/ \E c \in Calls : UploadChunkSend(c)
    \/ \E c \in Calls : UploadChunkSave(c)
    \/ \E c \in Calls, sid \in UploadIds, user \in Users : CompleteFind(c, sid, user)
    \/ \E c \in Calls : CompleteSend(c)
    \/ \E c \in Calls : CompleteSave(c)
    \/ \E c \in Calls : CompleteRecord(c)
    \/ \E c \in Calls, sid \in UploadIds, user \in Users : AbortFind(c, sid, user)
    \/ \E c \in Calls : AbortSend(c)
    \/ \E c \in Calls : AbortSave(c)
    \/ \E c \in Calls, sid \in UploadIds, user \in Users : GetStatus(c, sid, user)
    \/ CleanupFind
    \/ CleanupAbort
    \/ CleanupDelete
    \/ Tick

Spec == Init /\ [][Next]_vars

\* Runs that follow the cleanup over several sessions: clients open up to
\* SweepSessions sessions and send one upload or abort request.
NextSweep ==
    \/ \E user \in Owners, mime \in MimeTypes, size \in TotalSizes, chunks \in ChunkCounts :
          /\ NextUploadId <= SweepSessions
          /\ InitiateValidate(user, mime, size, chunks)
    \/ InitiateCreate
    \/ InitiateSave
    \/ \E sid \in SessionIds, user \in Users, p \in PartInputs, buf \in Buffers :
          UploadChunkFind(1, sid, user, p, buf)
    \/ UploadChunkSend(1)
    \/ UploadChunkSave(1)
    \/ \E sid \in SessionIds, user \in Users : AbortFind(1, sid, user)
    \/ AbortSend(1)
    \/ AbortSave(1)
    \/ CleanupFind
    \/ CleanupAbort
    \/ CleanupDelete
    \/ Tick

SpecSweep == Init /\ [][NextSweep]_vars

\* ====================================================================== claims
Terminal == {"completed", "aborted", "failed"}
Live     == {"initiated", "uploading"}

\* The part numbers 1 .. totalChunks of a document.
Expected(doc) == 1 .. doc.totalChunks

\* The outcome of a request that was turned down.
Rejected(out) == out \notin {"none", "ok", "recorded"}

\* In this step a request of kind op for upload sid takes slot c: it either
\* goes on to its object store call or is answered at once.
Starts(c, op, sid) ==
    /\ calls[c].pc = "idle"
    /\ \/ /\ calls'[c].pc = "send"
          /\ calls'[c].op = op
          /\ calls'[c].sid = sid
       \/ /\ calls'[c].pc = "done"
          /\ resp'.op = op
          /\ resp'.sid = sid

\* In this step the request in slot c is answered.
Ends(c) == calls[c].pc # "done" /\ calls'[c].pc = "done"

\* ---------------------------------------------------------------------- C1
\* C1: a complete request of the owner on a session that is not terminal gets
\* past the completeness check if and only if the recorded part numbers are
\* exactly 1 .. totalChunks, and a session becomes completed only with exactly
\* these part numbers recorded.
C1_CompleteIffAllParts ==
    [][ /\ \A c \in Calls, sid \in UploadIds :
              ( /\ Starts(c, "complete", sid)
                /\ db[sid].status \in Live
                /\ resp'.out # "not_found" )
              => ( calls'[c].pc = "send"
                     <=> PartNums(db[sid].parts) = Expected(db[sid]) )
        /\ \A sid \in UploadIds :
              ( db[sid].status \in Live /\ db'[sid].status = "completed" )
              => PartNums(db'[sid].parts) = Expected(db'[sid]) ]_vars

\* ---------------------------------------------------------------------- C2
\* The part number of the upload request that takes slot c in this step.
StartedPart(c) == IF calls'[c].pc = "send" THEN calls'[c].p ELSE resp'.p

\* In this step the upload request in slot c is answered with an eTag that
\* document doc records for the request's part number, and nothing is written.
AnsweredFromRecord(c, doc) ==
    /\ calls'[c].pc = "done"
    /\ resp'.out = "recorded"
    /\ \E i \in 1 .. Len(doc.parts) :
          /\ doc.parts[i].partNumber = resp'.p
          /\ doc.parts[i].eTag = resp'.eTag
    /\ db' = db
    /\ s3' = s3

\* C2 as claimed: an upload request for a part number that the session has
\* recorded, whatever the session's status, is answered with an eTag recorded
\* for that part number, without a call to the object store and without a
\* write to the session.
C2_RecordedPartAlwaysAnswered ==
    [][ \A c \in Calls, sid \in UploadIds :
          ( /\ Starts(c, "upload", sid)
            /\ db[sid] # NoDoc
            /\ StartedPart(c) \in PartNums(db[sid].parts) )
          => AnsweredFromRecord(c, db[sid]) ]_vars

\* C2 as amended: an upload request for a part number that a session
\* initiated or uploading has recorded is answered at once with an eTag
\* recorded for that part number, without a call to the object store and
\* without a write to the session; on a terminal session the request is turned
\* down, again without a call to the object store or a write.
C2_RecordedPartIdempotent ==
    [][ \A c \in Calls, sid \in UploadIds :
          ( /\ Starts(c, "upload", sid)
            /\ db[sid] # NoDoc
            /\ StartedPart(c) \in PartNums(db[sid].parts) )
          => IF db[sid].status \in Live
             THEN AnsweredFromRecord(c, db[sid])
             ELSE /\ calls'[c].pc = "done"
                  /\ Rejected(resp'.out)
                  /\ db' = db
                  /\ s3' = s3 ]_vars

\* An upload of a recorded part has just been answered with its eTag.
C2_Witness ==
    /\ resp.op = "upload" /\ resp.out = "recorded"
    /\ \E i \in 1 .. Len(db[resp.sid].parts) :
          /\ db[resp.sid].parts[i].partNumber = resp.p
          /\ db[resp.sid].parts[i].eTag = resp.eTag
    /\ s3[resp.sid].uploads[resp.p] = 1

\* ---------------------------------------------------------------------- C3
\* C3: the recorded parts of a session hold at most one entry per part number.
C3_NoDuplicateParts ==
    \A sid \in UploadIds :
        db[sid] # NoDoc =>
            \A i, j \in 1 .. Len(db[sid].parts) :
                i # j => db[sid].parts[i].partNumber # db[sid].parts[j].partNumber

\* ---------------------------------------------------------------------- C4
\* C4: an upload request that is in flight when its session is aborted is
\* turned down, and leaves the session as the abort left it.
C4_AbortWinsOverUpload ==
    [][ \A c \in Calls :
          ( /\ calls[c].op = "upload"
            /\ db[calls[c].sid].status = "aborted"
            /\ Ends(c) )
          => ( Rejected(resp'.out) /\ db' = db ) ]_vars

\* ---------------------------------------------------------------------- C5
\* C5: once uploads of the distinct part numbers 1 .. totalChunks have recorded
\* each of them once, the received count is totalChunks (so that a complete
\* request passes its check).
C5_DistinctPartsCounted ==
    \A sid \in UploadIds :
        ( /\ db[sid] # NoDoc
          /\ Len(db[sid].parts) = db[sid].totalChunks
          /\ PartNums(db[sid].parts) = Expected(db[sid]) )
        => db[sid].uploadedChunks = db[sid].totalChunks

\* ---------------------------------------------------------------------- C6
\* C6: the status, the recorded parts and the received count of a terminal
\* session do not change.
C6_TerminalIsFinal ==
    [][ \A sid \in UploadIds :
          ( db[sid].status \in Terminal /\ db'[sid] # NoDoc )
          => ( /\ db'[sid].status = db[sid].status
               /\ db'[sid].parts = db[sid].parts
               /\ db'[sid].uploadedChunks = db[sid].uploadedChunks ) ]_vars

\* ---------------------------------------------------------------------- C7
\* C7: an upload, complete, abort or status request of a caller who does not
\* own the session is turned down at once; it never reaches the object store
\* or a write of the session.
C7_OwnerOnly ==
    [][ \A c \in Calls, sid \in UploadIds, user \in Users :
          ( /\ db[sid] # NoDoc
            /\ ~Found(db[sid], user)
            /\ \/ \E p \in PartInputs, buf \in Buffers :
                     UploadChunkFind(c, sid, user, p, buf)
               \/ CompleteFind(c, sid, user)
               \/ AbortFind(c, sid, user)
               \/ GetStatus(c, sid, user) )
          => ( calls'[c].pc = "done" /\ Rejected(resp'.out) ) ]_vars

\* ---------------------------------------------------------------------- C8
\* C8: every recorded part number of a session is within 1 .. totalChunks.
C8_PartsInRange ==
    \A sid \in UploadIds :
        db[sid] # NoDoc => PartNums(db[sid].parts) \subseteq Expected(db[sid])

\* ---------------------------------------------------------------------- C9
\* C9 as claimed: an abort request of the owner that read the session as
\* initiated or uploading ends with the session aborted and its multipart
\* upload no longer open at the object store.
C9_AbortAlwaysAborts ==
    [][ \A c \in Calls :
          ( /\ calls[c].op = "abort"
            /\ calls[c].st \in Live
            /\ Ends(c) )
          => ( /\ db'[calls[c].sid].status = "aborted"
               /\ s3'[calls[c].sid].state # "open" ) ]_vars

\* C9 as amended: an abort request of the owner that read the session as
\* initiated or uploading and is answered with success ends with the session
\* aborted and its multipart upload no longer open at the object store; a
\* request that is turned down leaves the status as it was.
C9_AbortAbortsOnSuccess ==
    [][ \A c \in Calls :
          ( /\ calls[c].op = "abort"
            /\ calls[c].st \in Live
            /\ Ends(c) )
          => IF resp'.out = "ok"
             THEN /\ db'[calls[c].sid].status = "aborted"
                  /\ s3'[calls[c].sid].state # "open"
             ELSE db' = db ]_vars

\* An abort of a session read as initiated or uploading has just succeeded.
C9_Witness ==
    /\ resp.op = "abort" /\ resp.out = "ok"
    /\ db[resp.sid].status = "aborted"
    /\ s3[resp.sid].state = "aborted"

\* ---------------------------------------------------------------------- C10
\* C10: an abort request on a completed session is turned down at once, with
\* no call to the object store, and the session stays completed.
C10_AbortOfCompletedRejected ==
    [][ \A c \in Calls, sid \in UploadIds :
          ( Starts(c, "abort", sid) /\ db[sid].status = "completed"
                                    /\ resp'.out # "not_found" )
          => ( calls'[c].pc = "done" /\ Rejected(resp'.out) ) ]_vars

\* ---------------------------------------------------------------------- C11
\* C11: an abort request of the owner on a session that is aborted or failed
\* is answered at once with success, with no call to the object store and no
\* write to the session.
C11_AbortOfAbortedIsNoOp ==
    [][ \A c \in Calls, sid \in UploadIds :
          ( /\ Starts(c, "abort", sid)
            /\ db[sid].status \in {"aborted", "failed"}
            /\ resp'.out # "not_found" )
          => ( /\ calls'[c].pc = "done"
               /\ resp'.out = "ok"
               /\ db' = db
               /\ s3' = s3 ) ]_vars

\* ---------------------------------------------------------------------- C12
\* C12: a complete request of the owner on a session that is aborted or failed
\* is turned down at once, with no merge sent to the object store, and the
\* session is left as it was.
C12_CompleteOfAbortedRejected ==
    [][ \A c \in Calls, sid \in UploadIds :
          ( /\ Starts(c, "complete", sid)
            /\ db[sid].status \in {"aborted", "failed"}
            /\ resp'.out # "not_found" )
          => ( /\ calls'[c].pc = "done"
               /\ Rejected(resp'.out)
               /\ db' = db
               /\ s3' = s3 ) ]_vars

\* ---------------------------------------------------------------------- C13
\* In this step the sweep is done with the session at the head of its queue,
\* whose multipart upload it has aborted.
SweepLeaves(u) ==
    /\ reaper.pc = "delete"
    /\ reaper' # reaper
    /\ u = Head(reaper.queue)

\* A request against a session whose record was removed is answered "not
\* found" at once and changes nothing.
RemovedIsNotFound ==
    \A c \in Calls, sid \in UploadIds :
        ( /\ \/ Starts(c, "upload", sid) /\ StartedPart(c) >= 1
             \/ Starts(c, "complete", sid)
          /\ db[sid] = NoDoc
          /\ s3[sid].state # "none" )
        => ( /\ calls'[c].pc = "done"
             /\ resp'.out = "not_found"
             /\ db' = db
             /\ s3' = s3 )

\* C13 as claimed: when the sweep is done with a session whose multipart upload
\* it has aborted, the multipart upload is no longer open and the record is
\* removed or aborted; upload and complete requests against a removed session
\* are answered "not found".
C13_SweepAbortsSelected ==
    [][ /\ \A u \in UploadIds :
              SweepLeaves(u)
              => ( /\ s3'[u].state # "open"
                   /\ (db'[u] = NoDoc \/ db'[u].status = "aborted") )
        /\ RemovedIsNotFound ]_vars

\* C13 as amended: when the sweep is done with a session whose multipart
\* upload it has aborted and whose record it has deleted, the multipart upload
\* is no longer open and the record is removed, and upload and complete
\* requests against it are answered "not found"; when the deletion failed, the
\* record is left as it was.
C13_SweepRemovesDeleted ==
    [][ /\ \A u \in UploadIds :
              SweepLeaves(u)
              => IF reaper'.cleanedCount = reaper.cleanedCount + 1
                 THEN db'[u] = NoDoc /\ s3'[u].state # "open"
                 ELSE db' = db /\ s3'[u].state # "open"
        /\ RemovedIsNotFound ]_vars

\* A request against a session that a sweep removed has just been answered
\* "not found".
C13_Witness ==
    /\ reaper.cleanedCount = 1
    /\ resp.op \in {"upload", "complete"}
    /\ resp.out = "not_found"
    /\ resp.sid \in UploadIds
    /\ db[resp.sid] = NoDoc
    /\ s3[resp.sid].state = "aborted"

\* ---------------------------------------------------------------------- C14
\* C14: every step of a sweep, failed or not, either goes on to the deletion
\* of the session at hand or goes on to the next selected session; the sweep
\* ends only when no selected session is left, and a failure of the object
\* store or of the database ends it in no other way.
C14_SweepGoesOn ==
    [][ ( reaper.pc \in {"abort", "delete"} /\ reaper' # reaper )
        => \/ /\ reaper.pc = "abort"
              /\ reaper'.pc = "delete"
              /\ reaper'.queue = reaper.queue
           \/ /\ reaper'.queue = Tail(reaper.queue)
              /\ reaper'.pc = IF Tail(reaper.queue) = <<>> THEN "idle" ELSE "abort" ]_vars

\* The sweep failed on the first of two selected sessions, whose record is
\* still there, and has gone on to clean the second.
C14_Witness ==
    /\ reaper.pc = "idle"
    /\ reaper.cleanedCount = 1
    /\ faults = 1
    /\ db[1] # NoDoc
    /\ db[1].status \in Live
    /\ db[1].expiresAt < now
    /\ db[2] = NoDoc
    /\ s3[2].state = "aborted"

\* ---------------------------------------------------------------------- C15
InitiateRefusals == {"invalid_type", "size_exceeded", "too_small"}

\* C15: an initiate request that is turned down for its media type, for a size
\* above the limit, or for a size below one chunk with more than one chunk
\* declared, is turned down in its first step: no multipart upload is created
\* at the object store and no session record is created.
C15_RefusedInitiateCreatesNothing ==
    [][ ( resp'.op = "initiate" /\ resp'.out \in InitiateRefusals )
        => ( /\ ini.pc = "idle"
             /\ s3' = s3
             /\ db' = db ) ]_vars

\* An initiate request has just been turned down for its size, with nothing
\* created.
C15_Witness ==
    /\ resp.op = "initiate"
    /\ resp.out \in {"size_exceeded", "too_small"}
    /\ \A u \in SessionIds : s3[u].state = "none" /\ db[u] = NoDoc

CompleteEnds(c, sid) ==
    /\ Ends(c)
    /\ resp'.op = "complete"
    /\ resp'.sid = sid

\* C17: a session never has more than one File record, and whenever a complete
\* request for a completed session is answered, with no other complete request
\* for the session in progress, the session has its File record, unless the
\* database failed this very request.
C17_OneFileRecord ==
    [][ \A sid \in UploadIds :
          /\ files'[sid] <= 1
          /\ \A c \in Calls :
                ( /\ CompleteEnds(c, sid)
                  /\ db'[sid].status = "completed"
                  /\ resp'.out \notin {"store", "db", "file_db"}
                  /\ \A d \in Calls :
                        ~(calls'[d].op = "complete" /\ calls'[d].sid = sid) )
                => files'[sid] = 1 ]_vars

\* ---------------------------------------------------------------------- C18
\* The outcomes a request has when the object store is unavailable.
StoreUnavailable == {"store", "no_etag"}

\* C18: the response to an upload, complete or abort request for a session
\* that is not found differs from every response the same request gets when
\* the object store is unavailable.
C18_NotFoundDistinguishable ==
    ( resp.op \in {"upload", "complete", "abort"} /\ resp.out = "not_found" )
    => \A out \in StoreUnavailable :
          HttpResponse(resp.op, resp.out) # HttpResponse(resp.op, out)

\* ---------------------------------------------------------------------- C19
\* C19: an upload or complete request against a session whose expiresAt has
\* passed is turned down at once and writes nothing.
C19_ExpiredIsRejected ==
    [][ \A c \in Calls, sid \in UploadIds :
          ( /\ Starts(c, "upload", sid) \/ Starts(c, "complete", sid)
            /\ db[sid] # NoDoc
            /\ db[sid].expiresAt < now )
          => ( /\ calls'[c].pc = "done"
               /\ Rejected(resp'.out)
               /\ db' = db
               /\ s3' = s3 ) ]_vars

\* ---------------------------------------------------------------------- C20
\* C20: an initiate request answered with success has created one session
\* record, under the upload id the object store handed out for it, with status
\* initiated, no parts, no chunk counted, the size and the number of chunks the
\* client declared, and an expiry 24 hours after the creation; no other record
\* is touched, and the chunk size returned is 5 MiB.
C20_InitiateCreatesSession ==
    [][ ( resp'.op = "initiate" /\ resp'.out = "ok" )
        => LET u == resp'.sid
           IN  /\ ini.pc = "save"
               /\ u = ini.uploadId
               /\ s3[u].state = "open"
               /\ db[u] = NoDoc
               /\ db'[u].status = "initiated"
               /\ db'[u].userId = ini.user
               /\ db'[u].parts = <<>>
               /\ db'[u].uploadedChunks = 0
               /\ db'[u].totalChunks = ini.chunks
               /\ db'[u].totalSize = ini.size
               /\ db'[u].expiresAt = now + 24
               /\ \A w \in SessionIds \ {u} : db'[w] = db[w]
               /\ InitiateResult(u) = [uploadId |-> u, chunkSize |-> 5] ]_vars

\* A second session has just been created beside the first.
C20_Witness ==
    /\ resp.op = "initiate"
    /\ resp.out = "ok"
    /\ resp.sid = 2
    /\ db[1] # NoDoc
    /\ db[2].status = "initiated"
    /\ db[2].expiresAt = now + 24

\* ---------------------------------------------------------------------- C21
\* C21: the object store's UploadPart is invoked at most once for each session
\* and part number.
C21_OnePhysicalUploadPerPart ==
    \A sid \in UploadIds, p \in PartNumbers : s3[sid].uploads[p] <= 1

\* ---------------------------------------------------------------------- C22
\* C22: the record of a completed session is never deleted, and the object it
\* was merged into is never released.
C22_SweepSparesCompleted ==
    [][ \A sid \in UploadIds :
          db[sid].status = "completed"
          => ( /\ db'[sid] # NoDoc
               /\ s3[sid].state = "merged" => s3'[sid].state = "merged" ) ]_vars

\* ---------------------------------------------------------------------- C23
\* C23: a multipart upload is open at the object store only with a session
\* record through which the sweep finds it, or while the initiate request
\* that opened it is about to create that record.
C23_OpenUploadHasRecord ==
    \A sid \in UploadIds :
        s3[sid].state = "open"
        => \/ db[sid] # NoDoc
           \/ ini.pc = "save" /\ ini.uploadId = sid

\* ---------------------------------------------------------------------- C24
\* The list ascends strictly in partNumber.
StrictlyAscending(parts) ==
    \A i \in 1 .. (Len(parts) - 1) : parts[i].partNumber < parts[i + 1].partNumber

\* C24: the part list a complete request takes to the merge has as many
\* entries as the parts recorded in the document the request read, every entry
\* is one of these parts with its recorded eTag, every recorded part is in the
\* list, and the list ascends strictly in partNumber.
C24_MergeListsRecordedParts ==
    [][ \A c \in Calls, sid \in UploadIds :
          ( Starts(c, "complete", sid) /\ calls'[c].pc = "send" )
          => LET list     == calls'[c].parts
                 recorded == db[sid].parts
             IN  /\ Len(list) = Len(recorded)
                 /\ {list[i] : i \in 1 .. Len(list)}
                       = {recorded[i] : i \in 1 .. Len(recorded)}
                 /\ StrictlyAscending(list) ]_vars

\* ---------------------------------------------------------------------- C25
\* C25: a complete request whose merge the object store fails leaves the
\* session failed.
C25_FailedMergeMarksFailed ==
    [][ \A c \in Calls :
          ( /\ calls[c].op = "complete"
            /\ calls[c].pc = "send"
            /\ Ends(c)
            /\ db[calls[c].sid] # NoDoc )
          => db'[calls[c].sid].status = "failed" ]_vars

\* ---------------------------------------------------------------------- C26
\* C26: a session whose status is initiated has no recorded part, and an
\* upload request that records a part of an initiated session leaves the
\* session uploading.
C26_InitiatedHasNoParts ==
    /\ [](\A sid \in UploadIds :
            (db[sid] # NoDoc /\ db[sid].status = "initiated") => db[sid].parts = <<>>)
    /\ [][ \A c \in Calls :
             ( /\ calls[c].op = "upload"
               /\ Ends(c)
               /\ resp'.out = "ok"
               /\ db[calls[c].sid].status = "initiated" )
             => db'[calls[c].sid].status = "uploading" ]_vars

\* The first part of a session has been recorded and the session is uploading.
C26_Witness ==
    /\ resp.op = "upload"
    /\ resp.out = "ok"
    /\ db[resp.sid] # NoDoc
    /\ db[resp.sid].status = "uploading"
    /\ Len(db[resp.sid].parts) = 1

\* ---------------------------------------------------------------------- C27
\* C27: uploadedChunks is the number of entries of parts.
C27_CountIsNumberOfParts ==
    \A sid \in UploadIds :
        db[sid] # NoDoc => db[sid].uploadedChunks = Len(db[sid].parts)

\* ---------------------------------------------------------------------- C28
\* C28: when the object store fails the UploadPart of a request, refuses it,
\* or returns no ETag, the request is answered with an error in that step and
\* no session document changes.
C28_FailedPartLeavesRecord ==
    [][ \A c \in Calls :
          ( /\ calls[c].op = "upload"
            /\ calls[c].pc = "send"
            /\ calls'[c] # calls[c] )
          => /\ ( faults' # faults \/ s3[calls[c].sid].state # "open" ) => Ends(c)
             /\ Ends(c) => ( Rejected(resp'.out) /\ db' = db /\ s3' = s3 ) ]_vars

\* An upload request was answered with the failure of the object store, and
\* its part is not recorded.
C28_Witness ==
    /\ resp.op = "upload"
    /\ resp.out \in StoreUnavailable
    /\ db[resp.sid] # NoDoc
    /\ resp.p \notin PartNums(db[resp.sid].parts)
    /\ s3[resp.sid].uploads[resp.p] = 0

\* ---------------------------------------------------------------------- C29
\* C29: the status of a session becomes aborted only in the save of an abort
\* request whose object store call has returned, with the multipart upload no
\* longer open; an abort request whose object store call fails is answered with
\* an error in that step and no session document changes.
C29_AbortedOnlyAfterStoreAbort ==
    [][ /\ \A sid \in UploadIds :
             ( /\ db[sid] # NoDoc
               /\ db[sid].status # "aborted"
               /\ db'[sid] # NoDoc
               /\ db'[sid].status = "aborted" )
             => /\ \E c \in Calls : /\ calls[c].op = "abort"
                                    /\ calls[c].pc = "save"
                                    /\ calls[c].sid = sid
                                    /\ Ends(c)
                /\ s3[sid].state # "open"
        /\ \A c \in Calls :
             ( /\ calls[c].op = "abort"
               /\ calls[c].pc = "send"
               /\ calls'[c] # calls[c] )
             => /\ faults' # faults => Ends(c)
                /\ Ends(c) => ( Rejected(resp'.out) /\ db' = db /\ s3' = s3 ) ]_vars

\* An abort request was answered with the failure of the object store: the
\* session is still live and its multipart upload is still open.
C29_Witness ==
    /\ resp.op = "abort"
    /\ resp.out = "store"
    /\ db[resp.sid] # NoDoc
    /\ db[resp.sid].status \in Live
    /\ s3[resp.sid].state = "open"

\* ---------------------------------------------------------------------- C30
\* C30: a session document is deleted only by the sweep, for the upload at
\* hand, after the object store took the abort (the multipart upload is no
\* longer open); when the abort fails the sweep changes no document and does
\* not count the upload; and a sweep that starts selects every expired live
\* session, the ones a failed abort left behind included.
C30_DeletedOnlyAfterStoreAbort ==
    [][ /\ \A u \in SessionIds :
             ( db[u] # NoDoc /\ db'[u] = NoDoc )
             => /\ reaper.pc = "delete"
                /\ Head(reaper.queue) = u
                /\ s3[u].state # "open"
                /\ reaper'.cleanedCount = reaper.cleanedCount + 1
        /\ ( reaper.pc = "abort" /\ reaper' # reaper /\ reaper'.pc # "delete" )
             => /\ db' = db
                /\ s3' = s3
                /\ reaper'.cleanedCount = reaper.cleanedCount
                /\ reaper'.queue = Tail(reaper.queue)
        /\ ( reaper.pc = "idle" /\ reaper'.pc = "abort" )
             => \A u \in SessionIds :
                   ( /\ db[u] # NoDoc
                     /\ db[u].status \in Live
                     /\ db[u].expiresAt < now )
                   => \E i \in 1 .. Len(reaper'.queue) : reaper'.queue[i] = u ]_vars

\* The object store failed the abort of the first of two expired sessions: the
\* sweep has gone on to the second, has counted nothing, and the first is kept
\* as it was, live, expired and open at the store.
C30_Witness ==
    /\ reaper.pc = "abort"
    /\ reaper.queue = <<2>>
    /\ reaper.cleanedCount = 0
    /\ faults = 1
    /\ db[1] # NoDoc
    /\ db[1].status \in Live
    /\ db[1].expiresAt < now
    /\ s3[1].state = "open"
====
